---- MODULE Spec2Model ----
(***************************************************************************)
(* Model of micomplete/completeness.py: the calcCompleteness object, its   *)
(* handlers get_completeness, quantify_completeness, print_hmm_lists and   *)
(* attribute_weights, and the helper suspiscion_check.                      *)
(*                                                                         *)
(* Text is modelled as text: a Python str is a sequence of one-character   *)
(* strings, a file is a sequence of lines, str.split(), float(), len() and *)
(* the re calls are operators working on those characters.                 *)
(***************************************************************************)
EXTENDS Integers, Sequences, FiniteSets, TLC

(***************************************************************************)
(* Bounds of the model.                                                    *)
(***************************************************************************)
\* longest hit table (data and comment lines) hmmsearch writes
MaxLines == 3

(***************************************************************************)
(* Python str: characters, whitespace, str.split().                        *)
(***************************************************************************)
Whitespace == {" ", "\t", "\n"}

RECURSIVE SplitFrom(_, _, _)
SplitFrom(rest, cur, acc) ==
  IF rest = <<>>
  THEN IF cur = <<>> THEN acc ELSE Append(acc, cur)
  ELSE IF Head(rest) \in Whitespace
       THEN SplitFrom(Tail(rest), <<>>, IF cur = <<>> THEN acc ELSE Append(acc, cur))
       ELSE SplitFrom(Tail(rest), Append(cur, Head(rest)), acc)

\* s.split(): the maximal runs of non-whitespace characters of s, in order
Split(s) == SplitFrom(s, <<>>, <<>>)

(***************************************************************************)
(* The re module, for the patterns the program builds.  A marker name is   *)
(* pasted into the pattern unescaped, so its characters are pattern        *)
(* syntax: '.' stands for any character but a newline; letters, digits,    *)
(* '_' and '-' stand for themselves.  Names hold no other metacharacter.   *)
(***************************************************************************)
CharMatches(p, c) == IF p = "." THEN c # "\n" ELSE p = c

\* the pattern pat matches a prefix of s (re.match(pat, s), pat one char per position)
RECURSIVE MatchPrefix(_, _)
MatchPrefix(pat, s) ==
  IF pat = <<>> THEN TRUE
  ELSE IF s = <<>> THEN FALSE
  ELSE CharMatches(Head(pat), Head(s)) /\ MatchPrefix(Tail(pat), Tail(s))

\* re.search("^" + hmm + "$", field): '$' also matches before a final newline
SearchWhole(hmm, field) ==
  /\ MatchPrefix(hmm, field)
  /\ \/ Len(field) = Len(hmm)
     \/ Len(field) = Len(hmm) + 1 /\ field[Len(field)] = "\n"

\* re.match("#$", line)
MatchHashEnd(line) == line = <<"#">> \/ line = <<"#", "\n">>

\* re.match(hmm + "\s", line)
MatchNameSpace(hmm, line) ==
  /\ Len(line) > Len(hmm)
  /\ MatchPrefix(hmm, line)
  /\ line[Len(hmm) + 1] \in Whitespace

\* re.match(hmm + "\t", line)
MatchNameTab(hmm, line) ==
  /\ Len(line) > Len(hmm)
  /\ MatchPrefix(hmm, line)
  /\ line[Len(hmm) + 1] = "\t"

(***************************************************************************)
(* float(): a decimal string  digits [. digits] [e [+|-] digits]  read as  *)
(* the number m * 10^x, kept exact as the pair [m, x].                     *)
(***************************************************************************)
DigitVal(c) ==
  CASE c = "0" -> 0 [] c = "1" -> 1 [] c = "2" -> 2 [] c = "3" -> 3 [] c = "4" -> 4
    [] c = "5" -> 5 [] c = "6" -> 6 [] c = "7" -> 7 [] c = "8" -> 8 [] c = "9" -> 9

\* reads the mantissa: m the digits so far, frac the digits after the point
RECURSIVE ReadMantissa(_, _, _, _)
RECURSIVE ReadExponent(_, _, _)
ReadExponent(rest, sign, n) ==
  IF rest = <<>> THEN sign * n
  ELSE IF Head(rest) = "-" THEN ReadExponent(Tail(rest), -1, n)
  ELSE IF Head(rest) = "+" THEN ReadExponent(Tail(rest), 1, n)
  ELSE ReadExponent(Tail(rest), sign, 10 * n + DigitVal(Head(rest)))

ReadMantissa(rest, m, frac, point) ==
  IF rest = <<>> THEN [m |-> m, x |-> -frac]
  ELSE IF Head(rest) = "." THEN ReadMantissa(Tail(rest), m, frac, TRUE)
  ELSE IF Head(rest) \in {"e", "E"}
       THEN [m |-> m, x |-> ReadExponent(Tail(rest), 1, 0) - frac]
  ELSE ReadMantissa(Tail(rest), 10 * m + DigitVal(Head(rest)),
                    IF point THEN frac + 1 ELSE frac, point)

Float(s) == ReadMantissa(s, 0, 0, FALSE)

\* m1 * 10^d < m2, for d >= 0, without forming 10^d
RECURSIVE ScaledLt(_, _, _)
ScaledLt(m1, d, m2) ==
  IF d = 0 THEN m1 < m2
  ELSE IF m1 = 0 THEN 0 < m2
  ELSE IF m1 >= m2 THEN FALSE
  ELSE ScaledLt(10 * m1, d - 1, m2)

\* m1 < m2 * 10^d, for d >= 0
RECURSIVE LtScaled(_, _, _)
LtScaled(m1, m2, d) ==
  IF d = 0 THEN m1 < m2
  ELSE IF m2 = 0 THEN FALSE
  ELSE IF m2 > m1 THEN TRUE
  ELSE LtScaled(m1, 10 * m2, d - 1)

\* a < b for two non-negative numbers m * 10^x
FloatLt(a, b) ==
  IF a.x >= b.x THEN ScaledLt(a.m, a.x - b.x, b.m)
  ELSE LtScaled(a.m, b.m, b.x - a.x)

\* a < pow(b, 1/2) for non-negative a and b, decided as a * a < b
LtSqrt(a, b) == FloatLt([m |-> a.m * a.m, x |-> 2 * a.x], b)

RECURSIVE Pow10(_)
Pow10(n) == IF n <= 0 THEN 1 ELSE 10 * Pow10(n - 1)

\* a + b, exact
FloatAdd(a, b) ==
  IF a.x <= b.x THEN [m |-> a.m + b.m * Pow10(b.x - a.x), x |-> a.x]
  ELSE [m |-> a.m * Pow10(a.x - b.x) + b.m, x |-> b.x]

\* round(n / d, 3) for integers n >= 0 and d > 0, as a count of thousandths;
\* an exact tie goes to the even neighbour
Round3(n, d) ==
  LET q == (1000 * n) \div d
      r == (1000 * n) % d
  IN  IF 2 * r > d THEN q + 1
      ELSE IF 2 * r < d THEN q
      ELSE IF q % 2 = 0 THEN q ELSE q + 1

\* round(a, 3) as a count of thousandths
RoundFloat3(a) ==
  IF a.x >= 0 THEN Round3(a.m * Pow10(a.x), 1) ELSE Round3(a.m, Pow10(-a.x))

\* round(a / b, 3) as a count of thousandths, b # 0
RoundQuot3(a, b) ==
  IF a.x >= b.x THEN Round3(a.m * Pow10(a.x - b.x), b.m)
  ELSE Round3(a.m, b.m * Pow10(b.x - a.x))

(***************************************************************************)
(* suspiscion_check(gene_match): gene_match is the list                    *)
(* [target, e-value, score, bias, best-domain e-value] of strings, here a  *)
(* 5-tuple (Python index i is index i + 1).                                *)
(***************************************************************************)
DomainCutoff == [m |-> 1, x |-> -2]

suspiscion_check(gene_match) ==
  \/ Len(gene_match[4]) >= Len(gene_match[3])
  \/ FloatLt(DomainCutoff, Float(gene_match[5]))

(***************************************************************************)
(* get_completeness, lines 79-90: for each marker name the table is read   *)
(* from its first line to the first line that is "#" alone.                *)
(***************************************************************************)
EmptyDict == <<>>

\* defaultdict(list): d[k].append(v)
DictAppend(d, k, v) ==
  IF k \in DOMAIN d THEN [d EXCEPT ![k] = Append(@, v)] ELSE d @@ (k :> <<v>>)

\* the list appended for a matching line (lines 87-89)
HitOf(found_hmm) ==
  <<found_hmm[1], found_hmm[5], found_hmm[6], found_hmm[7], found_hmm[8]>>

\* the inner loop (lines 81-90) for one marker over the lines still to read;
\* st = [matches, seen]
RECURSIVE ScanTable(_, _, _)
ScanTable(hmm_table, hmm, st) ==
  IF hmm_table = <<>> THEN st
  ELSE LET found_hmm == Head(hmm_table) IN
       IF MatchHashEnd(found_hmm) THEN st
       ELSE IF SearchWhole(hmm, Split(found_hmm)[3])
            THEN ScanTable(Tail(hmm_table), hmm,
                           [matches |-> DictAppend(st.matches, hmm, HitOf(Split(found_hmm))),
                            seen |-> st.seen \cup {hmm}])
            ELSE ScanTable(Tail(hmm_table), hmm, st)

\* the outer loop (line 79) over the marker names
RECURSIVE ScanAll(_, _, _)
ScanAll(names, hmm_table, st) ==
  IF names = {} THEN st
  ELSE LET hmm == CHOOSE n \in names : TRUE
       IN  ScanAll(names \ {hmm}, hmm_table, ScanTable(hmm_table, hmm, st))

(***************************************************************************)
(* get_completeness, lines 91-105: selection.                              *)
(***************************************************************************)
\* (variant for C9: the hit goes before its equals, as an unstable sort may put it)
RECURSIVE InsertBeforeEquals(_, _)
InsertBeforeEquals(sorted, gene) ==
  IF sorted = <<>> THEN <<gene>>
  ELSE IF ~FloatLt(Float(Head(sorted)[2]), Float(gene[2]))
       THEN <<gene>> \o sorted
       ELSE <<Head(sorted)>> \o InsertBeforeEquals(Tail(sorted), gene)

\* insertion of gene into a list sorted by float(ev[1]), after its equals
RECURSIVE InsertSorted(_, _)
InsertSorted(sorted, gene) ==
  IF sorted = <<>> THEN <<gene>>
  ELSE IF FloatLt(Float(gene[2]), Float(Head(sorted)[2]))
       THEN <<gene>> \o sorted
       ELSE <<Head(sorted)>> \o InsertSorted(Tail(sorted), gene)

\* sorted(gene_matches, key=lambda ev: float(ev[1])): stable
RECURSIVE SortFrom(_, _)
SortFrom(gene_matches, sorted) ==
  IF gene_matches = <<>> THEN sorted
  ELSE SortFrom(Tail(gene_matches), InsertSorted(sorted, Head(gene_matches)))

Sorted(gene_matches) == SortFrom(gene_matches, <<>>)

\* (variant for C1: the square root is forgotten)
WithinPrimary(gene, primary) == FloatLt(Float(gene[2]), Float(primary[2]))

\* the test of line 102
WithinSquareRoot(gene, primary) == LtSqrt(Float(gene[2]), Float(primary[2]))

\* one pass of the loop body (lines 96-103) for gene under marker hmm
FillStep(filled, hmm, gene, len) ==
  IF ~len /\ suspiscion_check(gene) THEN filled
  ELSE IF hmm \notin DOMAIN filled THEN DictAppend(filled, hmm, gene)
  ELSE IF WithinSquareRoot(gene, filled[hmm][1]) THEN DictAppend(filled, hmm, gene)
  ELSE filled

\* the loop of line 95 over the sorted hits of one marker
RECURSIVE FillLoop(_, _, _, _)
FillLoop(genes, hmm, filled, len) ==
  IF genes = <<>> THEN filled
  ELSE FillLoop(Tail(genes), hmm, FillStep(filled, hmm, Head(genes), len), len)

\* the loop of line 93 over hmm_matches.items()
RECURSIVE FillAll(_, _, _, _)
FillAll(keys, matches, filled, len) ==
  IF keys = {} THEN filled
  ELSE LET hmm == CHOOSE k \in keys : TRUE
       IN  FillAll(keys \ {hmm}, matches,
                   FillLoop(Sorted(matches[hmm]), hmm, filled, len), len)

\* lines 104-105; the list is kept as the set of its members
DupHmms(filled) == {hmm \in DOMAIN filled : Len(filled[hmm]) > 1}

(***************************************************************************)
(* attribute_weights, lines 154-165: the two sums over the weights file.   *)
(***************************************************************************)
Zero == [m |-> 0, x |-> 0]

\* the weights of the lines of the file that the test accepts for hmm, added to acc
RECURSIVE AddMatching(_, _, _, _)
AddMatching(lines, hmm, tab, acc) ==
  IF lines = <<>> THEN acc
  ELSE LET each_weight == Head(lines)
           hit == IF tab THEN MatchNameTab(hmm, each_weight)
                  ELSE MatchNameSpace(hmm, each_weight)
       IN  AddMatching(Tail(lines), hmm, tab,
                       IF hit THEN FloatAdd(acc, Float(Split(each_weight)[2])) ELSE acc)

RECURSIVE SumOver(_, _, _, _)
SumOver(hmms, lines, tab, acc) ==
  IF hmms = {} THEN acc
  ELSE LET hmm == CHOOSE h \in hmms : TRUE
       IN  SumOver(hmms \ {hmm}, lines, tab, AddMatching(lines, hmm, tab, acc))

\* lines 156-160: matched with hmm + "\s"
WeightedComplete(seen, lines) == SumOver(seen, lines, FALSE, Zero)

\* lines 161-165: matched with hmm + "\t"
WeightedRedun(dups, lines) == SumOver(dups, lines, TRUE, Zero)

(***************************************************************************)
(* The state: one calcCompleteness object and the files it works on.       *)
(***************************************************************************)
VARIABLES
  hmm_names,    \* self.hmm_names, read from the profile file by __init__
  lenient,      \* self.lenient
  weights,      \* the lines of the file self.weights
  hmmer_out,    \* the table hmmsearch computes from self.hmms and self.fasta
  tblout,       \* the file self.tblout: [exists, lines]
  attrs,        \* which of the four result attributes self has
  hmm_matches,  \* self.hmm_matches
  seen_hmms,    \* self.seen_hmms
  filled_hmms,  \* self.filled_hmms
  dup_hmms,     \* self.dup_hmms
  ret           \* the last call: [op, errcode, exc, refs, nums, lists]

vars == <<hmm_names, lenient, weights, hmmer_out, tblout, attrs, hmm_matches,
          seen_hmms, filled_hmms, dup_hmms, ret>>

config == <<hmm_names, lenient, weights, hmmer_out>>
results == <<attrs, hmm_matches, seen_hmms, filled_hmms, dup_hmms>>

\* the value of returncode: the exit status of the tool, 0 or a failure status,
\* or -N when signal N ended it
ExitStatuses == {0, 1}
Signals == {9}

NoFile == [exists |-> FALSE, lines |-> <<>>]
File(lines) == [exists |-> TRUE, lines |-> lines]

\* hmm_search, lines 48-60: what the run leaves in self.tblout.  A run that
\* ends with status 0 has written the whole table.  A tool ended by a signal
\* has not touched the file, has created it and written nothing, or has
\* written it all.  A tool that exits with a failure status leaves a file no
\* one reads before the next run replaces it: it is kept as it was.
TbloutAfter(errcode) ==
  IF errcode = 0 THEN {File(hmmer_out)}
  ELSE IF errcode > 0 THEN {tblout}
  ELSE {tblout, File(<<>>), File(hmmer_out)}

NoLists == [files |-> {}, seen |-> {}, dup |-> {}, missing |-> {}]

\* what a call did: the exception it raised or the value it returned (refs:
\* the triple of the object's own filled_hmms, dup_hmms and hmm_names; nums:
\* a tuple of numbers), and the list files it wrote
Returned(op, errcode, exc, refs, nums) ==
  [op |-> op, errcode |-> errcode, exc |-> exc, refs |-> refs, nums |-> nums,
   lists |-> NoLists]

Printed(exc, files, seen, dup, missing) ==
  [op |-> "print_hmm_lists", errcode |-> 0, exc |-> exc, refs |-> FALSE, nums |-> <<>>,
   lists |-> [files |-> files, seen |-> seen, dup |-> dup, missing |-> missing]]

\* (variant for C7: the second number counts the duplicated markers, as the
\* docstring of quantify_completeness words it)
CountsDuplicated(filled, names) ==
  <<Cardinality(DOMAIN filled), Cardinality(DupHmms(filled)), Cardinality(names)>>

\* quantify_completeness, lines 118-127, on the triple of the object's attributes
Counts(filled, names) ==
  LET RECURSIVE Total(_)
      Total(keys) == IF keys = {} THEN 0
                     ELSE LET k == CHOOSE h \in keys : TRUE
                          IN  Len(filled[k]) + Total(keys \ {k})
  IN  <<Cardinality(DOMAIN filled), Total(DOMAIN filled), Cardinality(names)>>

\* get_completeness, lines 73-108, and with quantify the caller of lines 116-127
Run(op, errcode, quantify) ==
  /\ tblout' \in TbloutAfter(errcode)
  /\ UNCHANGED config
  /\ IF errcode > 0
     THEN \* line 75; in quantify_completeness len(0) raises the TypeError of line 120
          /\ UNCHANGED results
          /\ ret' = Returned(op, errcode, "", FALSE, <<0, 0, 0>>)
     ELSE IF hmm_names # {} /\ ~tblout'.exists
     THEN \* line 80: open() raises before anything is appended
          /\ attrs' = attrs \cup {"hmm_matches", "seen_hmms"}
          /\ hmm_matches' = EmptyDict
          /\ seen_hmms' = {}
          /\ UNCHANGED <<filled_hmms, dup_hmms>>
          /\ ret' = Returned(op, errcode, "IOError", FALSE, <<>>)
     ELSE \E st \in {ScanAll(hmm_names, tblout'.lines, [matches |-> EmptyDict, seen |-> {}])} :
          \E filled \in {FillAll(DOMAIN st.matches, st.matches, EmptyDict, lenient)} :
              /\ attrs' = {"hmm_matches", "seen_hmms", "filled_hmms", "dup_hmms"}
              /\ hmm_matches' = st.matches
              /\ seen_hmms' = st.seen
              /\ filled_hmms' = filled
              /\ dup_hmms' = DupHmms(filled)
              /\ ret' = IF quantify
                        THEN Returned(op, errcode, "", FALSE, Counts(filled, hmm_names))
                        ELSE Returned(op, errcode, "", TRUE, <<>>)

GetCompleteness(errcode) == Run("get_completeness", errcode, FALSE)

QuantifyCompleteness(errcode) == Run("quantify_completeness", errcode, TRUE)

\* print_hmm_lists, lines 129-149: each file is opened (and emptied) before
\* the attribute it lists is read
PrintHmmLists ==
  /\ UNCHANGED <<config, tblout, results>>
  /\ IF "seen_hmms" \notin attrs
     THEN ret' = Printed("AttributeError", {"seen"}, {}, {}, {})
     ELSE IF "dup_hmms" \notin attrs
     THEN ret' = Printed("AttributeError", {"seen", "dup"}, seen_hmms, {}, {})
     ELSE ret' = Printed("", {"seen", "dup", "missing"}, seen_hmms, dup_hmms,
                         {hmm \in hmm_names : hmm \notin seen_hmms})

\* (variant for C6: a zero denominator is answered with zeros)
DivideOrZero(weighted_redun, weighted_complete) ==
  IF weighted_complete.m = 0
  THEN Returned("attribute_weights", 0, "", FALSE, <<0, 0>>)
  ELSE Returned("attribute_weights", 0, "", FALSE,
                <<RoundFloat3(weighted_complete),
                  RoundQuot3(FloatAdd(weighted_redun, weighted_complete),
                             weighted_complete)>>)

\* lines 166-169: the division raises when weighted_complete is zero; the
\* two numbers returned are counts of thousandths
Divide(weighted_redun, weighted_complete) ==
  IF weighted_complete.m = 0
  THEN Returned("attribute_weights", 0, "ZeroDivisionError", FALSE, <<>>)
  ELSE Returned("attribute_weights", 0, "", FALSE,
                <<RoundFloat3(weighted_complete),
                  RoundQuot3(FloatAdd(weighted_redun, weighted_complete),
                             weighted_complete)>>)

\* attribute_weights, lines 151-169
AttributeWeights ==
  /\ UNCHANGED <<config, tblout, results>>
  /\ IF "seen_hmms" \notin attrs \/ "dup_hmms" \notin attrs
     THEN ret' = Returned("attribute_weights", 0, "AttributeError", FALSE, <<>>)
     ELSE \E weighted_complete \in {WeightedComplete(seen_hmms, weights)} :
          \E weighted_redun \in {WeightedRedun(dup_hmms, weights)} :
              ret' = Divide(weighted_redun, weighted_complete)

(***************************************************************************)
(* The inputs: marker names, table lines and weights files as text.        *)
(***************************************************************************)
RECURSIVE Join(_)
Join(tokens) ==
  IF Len(tokens) = 1 THEN Head(tokens) \o <<"\n">>
  ELSE Head(tokens) \o <<" ">> \o Join(Tail(tokens))

\* one line of hmmsearch --tblout: target, accession, query, accession,
\* full-sequence E-value, score, bias, best-domain E-value
Row(target, query, evalue, score, bias, dom) ==
  Join(<<target, <<"-">>, query, <<"-">>, evalue, score, bias, dom>>)

mA == <<"A">>
mB == <<"B">>
mAdot == <<"A", ".">>
mAB == <<"A", "B">>

e20 == <<"1", "e", "-", "2", "0">>
e15 == <<"1", "e", "-", "1", "5">>
e08 == <<"1", "e", "-", "0", "8">>
e03 == <<"0", ".", "0", "0", "1">>
e21 == <<"9", "e", "-", "2", "1">>
e30 == <<"1", "e", "-", "3", "0">>
dom02 == <<"0", ".", "0", "2">>
score50 == <<"5", "0", ".", "1">>
score9 == <<"9", ".", "8">>
bias01 == <<"0", ".", "1">>

Gene(n) == <<"g", n>>

\* hits of marker A: the e-values 1e-20, 1e-08 and 0.001, a hit within the
\* square root of 1e-20, a tie, and a hit suspiscion_check flags
SelLines == {
  Row(Gene("1"), mA, e20, score50, bias01, e20),
  Row(Gene("2"), mA, e08, score50, bias01, e08),
  Row(Gene("3"), mA, e03, score50, bias01, e03),
  Row(Gene("4"), mA, e15, score50, bias01, e15),
  Row(Gene("5"), mA, e20, score50, bias01, e30),
  Row(Gene("6"), mA, e21, score50, bias01, dom02) }

\* lines for the reading of the table: queries A, B and AB, the line "#"
\* and a line that starts with '#' and goes on
ParseLines == {
  Row(Gene("1"), mA, e20, score50, bias01, e20),
  Row(Gene("2"), mB, e15, score50, bias01, e15),
  Row(Gene("3"), mAB, e30, score50, bias01, e30),
  <<"#", "\n">>,
  Row(<<"#", "g", "4">>, mA, e30, score50, bias01, e30) }

\* hits of A and B for the weighting: two hits of A, a good and a flagged hit of B
WeightLines == {
  Row(Gene("1"), mA, e20, score50, bias01, e20),
  Row(Gene("4"), mA, e15, score50, bias01, e15),
  Row(Gene("2"), mB, e15, score50, bias01, e15),
  Row(Gene("8"), mB, e15, score9, bias01, e15) }

w05 == <<"0", ".", "5">>
w03 == <<"0", ".", "3">>
w0 == <<"0">>

WeightLine(name, sep, weight) == name \o <<sep>> \o weight \o <<"\n">>

TabWeights == <<WeightLine(mA, "\t", w05), WeightLine(mB, "\t", w03)>>

WeightFiles == {
  TabWeights,
  <<WeightLine(mA, " ", w05), WeightLine(mB, " ", w03)>>,
  <<WeightLine(mB, "\t", w03)>>,
  <<WeightLine(mA, "\t", w0)>>,
  <<>> }

NameSets == {{}, {mA}, {mA, mB}, {mAdot, mB}}

RECURSIVE SeqsUpTo(_, _)
SeqsUpTo(S, n) ==
  IF n = 0 THEN {<<>>}
  ELSE LET shorter == SeqsUpTo(S, n - 1)
       IN  shorter \cup {Append(t, l) : t \in shorter, l \in S}

Tables(pool) == SeqsUpTo(pool, MaxLines)

\* the object after __init__ (lines 25-41), before any call
InitWith(names, modes, pool, files) ==
  /\ hmm_names \in names
  /\ lenient \in modes
  /\ weights \in files
  /\ hmmer_out \in Tables(pool)
  /\ tblout = NoFile
  /\ attrs = {}
  /\ hmm_matches = EmptyDict
  /\ seen_hmms = {}
  /\ filled_hmms = EmptyDict
  /\ dup_hmms = {}
  /\ ret = Returned("__init__", 0, "", FALSE, <<>>)

InitSel == InitWith({{mA}}, BOOLEAN, SelLines, {TabWeights})
InitParse == InitWith(NameSets, {FALSE}, ParseLines, {TabWeights})
InitWeights == InitWith({{mA, mB}}, BOOLEAN, WeightLines, WeightFiles)

Next ==
  \/ \E status \in ExitStatuses : GetCompleteness(status)
  \/ \E status \in ExitStatuses : QuantifyCompleteness(status)
  \/ \E sig \in Signals : GetCompleteness(-sig)
  \/ \E sig \in Signals : QuantifyCompleteness(-sig)
  \/ PrintHmmLists
  \/ AttributeWeights

\* one marker, its hits in every order: the selection
SpecSel == InitSel /\ [][Next]_vars
\* several marker sets and lines of every kind: the reading of the table
SpecParse == InitParse /\ [][Next]_vars
\* two markers and several weights files: the weighting
SpecWeights == InitWeights /\ [][Next]_vars

(***************************************************************************)
(* Reference notions the properties are stated with.                       *)
(***************************************************************************)
AllAttrs == {"hmm_matches", "seen_hmms", "filled_hmms", "dup_hmms"}

\* the last call was a run whose search ended with status 0 and that returned
RanOk ==
  /\ ret.op \in {"get_completeness", "quantify_completeness"}
  /\ ret.errcode = 0
  /\ ret.exc = ""

Perms(n) == {p \in [1..n -> 1..n] : \A i, j \in 1..n : i # j => p[i] # p[j]}

\* hits in ascending order of e-value, equal e-values in their original order
StablySorted(hits) ==
  LET n == Len(hits)
      ev(i) == Float(hits[i][2])
      p == CHOOSE q \in Perms(n) :
             \A i, j \in 1..n :
               i < j => \/ FloatLt(ev(q[i]), ev(q[j]))
                        \/ ~FloatLt(ev(q[j]), ev(q[i])) /\ q[i] < q[j]
  IN  [i \in 1..n |-> hits[p[i]]]

\* the reference selection of one marker's hits
Accepted(hits, len) ==
  LET Kept(h) == len \/ ~suspiscion_check(h)
      kept == SelectSeq(StablySorted(hits), Kept)
      Duplicate(h) == LtSqrt(Float(h[2]), Float(kept[1][2]))
  IN  IF kept = <<>> THEN <<>>
      ELSE <<kept[1]>> \o SelectSeq(Tail(kept), Duplicate)

EvaluesOf(hits) == [i \in 1..Len(hits) |-> hits[i][2]]

\* the weight the table gives a marker: the lines whose first field is its name
RECURSIVE TableWeight(_, _)
TableWeight(M, lines) ==
  IF lines = <<>> THEN Zero
  ELSE LET fields == Split(Head(lines))
       IN  IF Len(fields) >= 2 /\ fields[1] = M
           THEN FloatAdd(Float(fields[2]), TableWeight(M, Tail(lines)))
           ELSE TableWeight(M, Tail(lines))

RECURSIVE TableWeightOf(_, _)
TableWeightOf(markers, lines) ==
  IF markers = {} THEN Zero
  ELSE LET M == CHOOSE m \in markers : TRUE
       IN  FloatAdd(TableWeight(M, lines), TableWeightOf(markers \ {M}, lines))

\* the markers with at least one accepted hit
WithAcceptedHit == {M \in DOMAIN filled_hmms : Len(filled_hmms[M]) >= 1}

\* the data section of a table: its lines before the first that starts with '#'
RECURSIVE DataSection(_)
DataSection(table) ==
  IF table = <<>> \/ Head(Head(table)) = "#" THEN <<>>
  ELSE <<Head(table)>> \o DataSection(Tail(table))

\* the hits of the data lines whose query name is M, in table order
RECURSIVE GroupOf(_, _)
GroupOf(M, lines) ==
  IF lines = <<>> THEN <<>>
  ELSE LET fields == Split(Head(lines))
       IN  IF fields[3] = M THEN <<HitOf(fields)>> \o GroupOf(M, Tail(lines))
           ELSE GroupOf(M, Tail(lines))

(***************************************************************************)
(* The properties.                                                         *)
(***************************************************************************)

\* C1: for every marker M with raw hits and either value of lenient,
\* filled_hmms[M] is the reference selection of hmm_matches[M] (stable sort
\* by numeric e-value, flagged hits dropped unless lenient, first kept hit
\* primary, a later one kept iff its e-value is less than the square root of
\* the primary's), and M is no key of filled_hmms when nothing is kept; hits
\* with e-values 1e-20, 1e-08, 0.001 give the primary alone and M not in
\* dup_hmms.
C1_SelectionIsReference ==
  "filled_hmms" \in attrs =>
    \A M \in DOMAIN hmm_matches :
      LET acc == Accepted(hmm_matches[M], lenient)
      IN  /\ acc = <<>> => M \notin DOMAIN filled_hmms
          /\ acc # <<>> => M \in DOMAIN filled_hmms /\ filled_hmms[M] = acc
          /\ (/\ EvaluesOf(hmm_matches[M]) = <<e20, e08, e03>>
              /\ \A i \in 1..3 : ~suspiscion_check(hmm_matches[M][i]))
             => /\ EvaluesOf(filled_hmms[M]) = <<e20>>
                /\ M \notin dup_hmms

\* C1 witness: a run on the hits 0.001, 1e-20, 1e-08 (in that order in the
\* table) has kept the hit of 1e-20 alone
C1_Witness ==
  /\ RanOk
  /\ mA \in DOMAIN hmm_matches
  /\ EvaluesOf(hmm_matches[mA]) = <<e03, e20, e08>>
  /\ EvaluesOf(filled_hmms[mA]) = <<e20>>

\* C2: after every successful run seen_hmms is exactly the set of markers
\* with at least one accepted hit (the keys of filled_hmms)
C2_SeenIsAccepted == RanOk => seen_hmms = WithAcceptedHit

\* C3: the weighted_complete attribute_weights returns after a run is the
\* sum of the table weights of the markers with an accepted hit, rounded to
\* 3 decimals
C3_WeightedCompleteOfAccepted ==
  (ret.op = "attribute_weights" /\ ret.exc = "") =>
    ret.nums[1] = RoundFloat3(TableWeightOf(WithAcceptedHit, weights))

\* C4: for a table of lines name, whitespace, weight, the weighted_redundancy
\* returned is (table weights of the duplicated markers + weighted_complete)
\* / weighted_complete rounded to 3 decimals; seen {A, B}, duplicated {A},
\* weights A 0.5 and B 0.3 give 0.8 and 1.625
C4_WeightedRedundancy ==
  (ret.op = "attribute_weights" /\ ret.exc = "") =>
    LET complete == WeightedComplete(seen_hmms, weights)
    IN  /\ ret.nums[2] =
             RoundQuot3(FloatAdd(TableWeightOf(dup_hmms, weights), complete), complete)
        /\ (/\ seen_hmms = {mA, mB} /\ dup_hmms = {mA}
            /\ TableWeight(mA, weights) = Float(w05)
            /\ TableWeight(mB, weights) = Float(w03))
           => ret.nums = <<800, 1625>>

\* C5: a quantify_completeness whose search ended with a non-zero status
\* returns (0, 0, 0) and raises nothing
C5_FailedSearchGivesZeros ==
  (ret.op = "quantify_completeness" /\ ret.errcode # 0) =>
    ret.exc = "" /\ ret.nums = <<0, 0, 0>>

\* the seen markers all have weight zero in the table or are not in it
ZeroDenominator == \A M \in seen_hmms : TableWeight(M, weights).m = 0

\* C6: with a zero denominator attribute_weights raises and returns no
\* number, and leaves hmm_matches, seen_hmms, filled_hmms and dup_hmms as
\* they were
C6_ZeroDenominatorRaises ==
  [][(/\ ret'.op = "attribute_weights"
      /\ attrs = AllAttrs
      /\ ZeroDenominator)
     => /\ ret'.exc = "ZeroDivisionError"
        /\ ret'.nums = <<>>
        /\ UNCHANGED results]_vars

\* C6 witness: attribute_weights has raised on seen markers of weight zero,
\* with accepted hits still in filled_hmms
C6_Witness ==
  /\ ret.op = "attribute_weights"
  /\ ret.exc = "ZeroDivisionError"
  /\ seen_hmms # {}
  /\ ZeroDenominator
  /\ filled_hmms # EmptyDict

C8_GroupsAreExactMatches ==
  RanOk =>
    \A M \in hmm_names :
      LET group == GroupOf(M, DataSection(hmmer_out))
      IN  IF group = <<>> THEN M \notin DOMAIN hmm_matches
          ELSE M \in DOMAIN hmm_matches /\ hmm_matches[M] = group

\* C9: the selection applied to its own result, with the same lenient flag,
\* gives that result again: same markers, same hits, same order
C9_SelectionIdempotent ==
  "filled_hmms" \in attrs =>
    FillAll(DOMAIN filled_hmms, filled_hmms, EmptyDict, lenient) = filled_hmms

\* C9 witness: a result with two accepted hits of equal e-value
C9_Witness ==
  /\ RanOk
  /\ mA \in DOMAIN filled_hmms
  /\ EvaluesOf(filled_hmms[mA]) = <<e20, e20>>

\* C10: after a run whose search failed nothing of an earlier run is
\* visible: no seen marker, no duplicated marker, no hit, no accepted hit
C10_NothingVisibleAfterFailure ==
  (ret.op \in {"get_completeness", "quantify_completeness"} /\ ret.errcode > 0) =>
    /\ seen_hmms = {}
    /\ dup_hmms = {}
    /\ hmm_matches = EmptyDict
    /\ filled_hmms = EmptyDict

====
